---- MODULE Spec2Model ----
\* Loss-landscape sweep of viz.py: interpolate two checkpoints, evaluate each
\* interpolant on the test and the train loader, record and persist the curves.
\* Floating-point values are modelled as exact rationals [n |-> num, d |-> den].
EXTENDS Integers, Sequences, FiniteSets

\* ---------------------------------------------------------------- bounds
MaxViz == 4
MaxCap == 3
MaxBatch == 2

\* ------------------------------------------------------ rational numbers
Abs(k) == IF k < 0 THEN 0 - k ELSE k

Min(a, b) == IF a < b THEN a ELSE b

RECURSIVE GCD(_, _)
GCD(a, b) == IF b = 0 THEN a ELSE GCD(b, a % b)

Frac(num, den) ==
    LET g == GCD(Abs(num), den)
    IN  [n |-> num \div g, d |-> den \div g]

FromInt(k) == [n |-> k, d |-> 1]

FAdd(a, b) == Frac(a.n * b.d + b.n * a.d, a.d * b.d)

FSub(a, b) == Frac(a.n * b.d - b.n * a.d, a.d * b.d)

FMul(a, b) == Frac(a.n * b.n, a.d * b.d)

FDivInt(a, k) == Frac(a.n, a.d * k)

FLt(a, b) == a.n * b.d < b.n * a.d

FLeq(a, b) == a.n * b.d <= b.n * a.d

RECURSIVE FSum(_)
FSum(s) == IF s = <<>> THEN FromInt(0) ELSE FAdd(s[1], FSum(Tail(s)))

RECURSIVE Sum(_)
Sum(s) == IF s = <<>> THEN 0 ELSE s[1] + Sum(Tail(s))

\* the value of a local that has not been assigned yet
None == [n |-> 0, d |-> 0]

\* ------------------------------------------------------------ the inputs
\* state_dicts a checkpoint file can hold: one weight per class
Checkpoints == { <<1, 0>>, <<0, 2>> }

\* ImageFolder datasets: x is the image, y the class label
testset == << [x |-> 1, y |-> 1], [x |-> -1, y |-> 1], [x |-> 1, y |-> 2] >>

trainset == << [x |-> 1, y |-> 1], [x |-> 2, y |-> 2] >>

Args == [viz_samples : 0..MaxViz, test_samples : -1..MaxCap, batch_size : 1..MaxBatch]

\* ------------------------------------------------------------ the models
NoModel == [params |-> <<>>, training |-> FALSE]

\* model() followed by load_state_dict(checkpoint)
LoadModel(sd) ==
    [params   |-> [c \in 1..Len(sd) |-> [data |-> FromInt(sd[c]), requires_grad |-> TRUE]],
     training |-> TRUE]

Data(m) == [c \in 1..Len(m.params) |-> m.params[c].data]

\* the forward pass on one image: one score per class
Forward(m, x) == [c \in 1..Len(m.params) |-> FMul(m.params[c].data, FromInt(x))]

\* output.topk(1): the index of the highest score
Top1(scores) ==
    CHOOSE c \in 1..Len(scores) :
        /\ \A e \in 1..Len(scores) : FLeq(scores[e], scores[c])
        /\ \A e \in 1..(c - 1) : FLt(scores[e], scores[c])

\* accuracy(output, target)[0]: the number of top-1 matches in the batch
accuracy(outputs, targets) ==
    Cardinality({ j \in 1..Len(targets) : Top1(outputs[j]) = targets[j] })

\* criterion(outputs, targets): one non-negative value per batch, the mean over
\* the batch of each example's loss (here the margin to the target's score)
criterion(outputs, targets) ==
    FDivInt(FSum([j \in 1..Len(targets) |->
                    FSub(outputs[j][Top1(outputs[j])], outputs[j][targets[j]])]),
            Len(targets))

\* ----------------------------------------------------------- interpolate
\* a copy that shares the source object instead of duplicating it
shallowcopy(h, src) == [heap |-> h, ref |-> src]

\* copy.deepcopy(model1): a new object holding a copy of the source's fields
deepcopy(h, src) ==
    [heap |-> [h EXCEPT !["interpolant"] = h[src]], ref |-> "interpolant"]

\* the two source parameters exchanged
InterpParamSwapped(alpha, p1, p2) ==
    FAdd(FMul(alpha, p2), FMul(FSub(FromInt(1), alpha), p1))

\* the second weight left out
InterpParamNoComplement(alpha, p1, p2) == FAdd(FMul(alpha, p1), p2)

\* alpha * param1.data + (1 - alpha) * param2.data
InterpParam(alpha, p1, p2) ==
    FAdd(FMul(alpha, p1), FMul(FSub(FromInt(1), alpha), p2))

\* interpolate(model1, model2, alpha) on the heap h; m1 and m2 are references
interpolate(h, m1, m2, alpha) ==
    LET c    == deepcopy(h, m1)
        ret  == c.ref
        p1   == c.heap[ret].params
        p2   == c.heap[m2].params
        n    == Min(Len(p1), Len(p2))
        newp == [k \in 1..Len(p1) |->
                    IF k <= n
                    THEN [data |-> InterpParam(alpha, p1[k].data, p2[k].data),
                          requires_grad |-> FALSE]
                    ELSE p1[k]]
    IN  [heap |-> [c.heap EXCEPT ![ret].params = newp], ref |-> ret]

\* ------------------------------------------------------------- linspace
LinStart == -1
LinStop == 2

\* the step taken over num intervals instead of num - 1
linspaceNoEndpoint(start, stop, num) ==
    LET delta == stop - start
        y(k)  == FAdd(FromInt(start), FMul(FromInt(k), Frac(delta, num)))
    IN  [k \in 1..num |-> IF num > 1 /\ k = num THEN FromInt(stop) ELSE y(k - 1)]

\* np.linspace(start, stop, num), endpoint included
linspace(start, stop, num) ==
    LET div   == num - 1
        delta == stop - start
        y(k)  == IF div > 0
                 THEN FAdd(FromInt(start), FMul(FromInt(k), Frac(delta, div)))
                 ELSE FAdd(FromInt(start), FromInt(k * delta))
    IN  [k \in 1..num |-> IF num > 1 /\ k = num THEN FromInt(stop) ELSE y(k - 1)]

\* -------------------------------------------------------------- loaders
Dataset(l) == IF l = "train" THEN trainset ELSE testset

Permutations(n) ==
    { s \in [1..n -> 1..n] : \A a, b \in 1..n : s[a] = s[b] => a = b }

\* the order in which a new iterator of the loader visits the dataset:
\* testloader has shuffle=False, trainloader shuffle=True
SamplerOrders(l) ==
    IF l = "train"
    THEN Permutations(Len(trainset))
    ELSE { [k \in 1..Len(testset) |-> k] }

\* transform_train crops and flips at random, transform_test is deterministic
Transforms(l, x) == IF l = "train" THEN { x, 0 - x } ELSE { x }

\* every image a loader can hand out
Images(l) == UNION { Transforms(l, Dataset(l)[k].x) : k \in 1..Len(Dataset(l)) }

\* the sizes of the batches a loader yields over a dataset of n samples
NumBatches(n, bs) == (n + bs - 1) \div bs

BatchLen(n, bs, j) == Min(bs, n - (j - 1) * bs)

\* ---------------------------------------------------------------- state
VARIABLES args, checkpoint1, checkpoint2, heap, pc, error,
          alphas, i, interpolant,
          test_losses, test_acces, train_losses, train_acces,
          test_loss, test_acc, train_loss, train_acc,
          loader, sampler, pos, total_loss, total_acc, total, processed,
          output

vars == << args, checkpoint1, checkpoint2, heap, pc, error,
           alphas, i, interpolant,
           test_losses, test_acces, train_losses, train_acces,
           test_loss, test_acc, train_loss, train_acc,
           loader, sampler, pos, total_loss, total_acc, total, processed,
           output >>

inputVars == << args, checkpoint1, checkpoint2 >>

lists == << test_losses, test_acces, train_losses, train_acces >>

locals == << test_loss, test_acc, train_loss, train_acc >>

frame == << loader, sampler, pos, total_loss, total_acc, total, processed >>

\* the state when visualize is called: arguments parsed, both models loaded
Init ==
    /\ args \in Args
    /\ checkpoint1 \in Checkpoints
    /\ checkpoint2 \in Checkpoints
    /\ heap = [r \in {"model1", "model2", "interpolant"} |->
                 IF r = "model1" THEN LoadModel(checkpoint1)
                 ELSE IF r = "model2" THEN LoadModel(checkpoint2)
                 ELSE NoModel]
    /\ pc = "start"
    /\ error = "none"
    /\ alphas = <<>>
    /\ i = 0
    /\ interpolant = "unbound"
    /\ test_losses = <<>> /\ test_acces = <<>>
    /\ train_losses = <<>> /\ train_acces = <<>>
    /\ test_loss = None /\ test_acc = None
    /\ train_loss = None /\ train_acc = None
    /\ loader = "none"
    /\ sampler = <<>>
    /\ pos = 0
    /\ total_loss = FromInt(0)
    /\ total_acc = 0
    /\ total = 0
    /\ processed = <<>>
    /\ output = [raw_arrays |-> <<>>, loss_pdf |-> <<>>, acc_pdf |-> <<>>]

\* ------------------------------------------------------------ visualize
\* lines 67-75: the empty lists and the coefficient sequence
VizBegin ==
    /\ pc = "start"
    /\ test_losses' = <<>> /\ test_acces' = <<>>
    /\ train_losses' = <<>> /\ train_acces' = <<>>
    /\ alphas' = linspace(LinStart, LinStop, args.viz_samples)
    /\ pc' = "for"
    /\ UNCHANGED << inputVars, heap, error, i, interpolant, locals, frame, output >>

\* lines 76-78: the next coefficient and its interpolant
VizInterpolate ==
    /\ pc = "for"
    /\ i < Len(alphas)
    /\ LET r == interpolate(heap, "model1", "model2", alphas[i + 1])
       IN  /\ heap' = r.heap
           /\ interpolant' = r.ref
    /\ i' = i + 1
    /\ pc' = "test"
    /\ UNCHANGED << inputVars, error, alphas, lists, locals, frame, output >>

\* the test pair appended to the train lists as well
VizAppendSwapped ==
    /\ pc = "append"
    /\ test_losses' = Append(test_losses, test_loss)
    /\ test_acces' = Append(test_acces, test_acc)
    /\ train_losses' = Append(train_losses, test_loss)
    /\ train_acces' = Append(train_acces, test_acc)
    /\ pc' = "for"
    /\ UNCHANGED << inputVars, heap, error, alphas, i, interpolant, locals, frame, output >>

\* lines 83-87
VizAppend ==
    /\ pc = "append"
    /\ test_losses' = Append(test_losses, test_loss)
    /\ test_acces' = Append(test_acces, test_acc)
    /\ train_losses' = Append(train_losses, train_loss)
    /\ train_acces' = Append(train_acces, train_acc)
    /\ pc' = "for"
    /\ UNCHANGED << inputVars, heap, error, alphas, i, interpolant, locals, frame, output >>

\* lines 89-116: the pickled dictionary and the two plots
VizReport ==
    /\ pc = "for"
    /\ i = Len(alphas)
    /\ output' = [raw_arrays |-> << [test_loss      |-> test_losses,
                                     test_accuracy  |-> test_acces,
                                     train_loss     |-> train_losses,
                                     train_accuracy |-> train_acces] >>,
                  loss_pdf   |-> << [x |-> alphas, train |-> train_losses, test |-> test_losses] >>,
                  acc_pdf    |-> << [x |-> alphas, train |-> train_acces, test |-> test_acces] >>]
    /\ pc' = "done"
    /\ UNCHANGED << inputVars, heap, error, alphas, i, interpolant, lists, locals, frame >>

\* ----------------------------------------------------------------- test
\* the cap compared strictly
CapReachedStrict(t, samples) == t > samples

\* the loop left one sample early
CapReachedEarly(t, samples) == t + 1 >= samples

\* line 127: the cap check made before each batch
CapReached(t, samples) == t >= samples

\* batches counted instead of samples
BatchCountOne(targets) == 1

\* line 138: targets.size(0)
BatchCount(targets) == Len(targets)

\* the batch loss weighted by the batch size
AddLossWeighted(acc, loss, targets) == FAdd(acc, FMul(loss, FromInt(Len(targets))))

\* line 136: total_loss += loss.item()
AddLoss(acc, loss, targets) == FAdd(acc, loss)

\* line 140: the returned pair
MeanLoss(tl, t) == FDivInt(tl, t)

Percent(ta, t) == Frac(100 * ta, t)

\* the indices of the batch the iterator yields next
NextIdx == SubSeq(sampler, pos + 1, Min(pos + args.batch_size, Len(sampler)))

\* the batches the loader can yield for these indices
NextBatches ==
    { [idx     |-> NextIdx,
       inputs  |-> xs,
       targets |-> [j \in 1..Len(NextIdx) |-> Dataset(loader)[NextIdx[j]].y]] :
         xs \in { s \in [1..Len(NextIdx) -> Images(loader)] :
                    \A j \in 1..Len(NextIdx) :
                        s[j] \in Transforms(loader, Dataset(loader)[NextIdx[j]].x) } }

\* model(inputs)
Outputs(m, inputs) == [j \in 1..Len(inputs) |-> Forward(m, inputs[j])]

\* lines 119-126: test is entered for the loader the caller passes, the model
\* is put in eval mode, the totals are zeroed and an iterator is created
TestBegin ==
    /\ pc \in {"test", "train"}
    /\ loader' = pc
    /\ heap' = [heap EXCEPT ![interpolant].training = FALSE]
    /\ total_loss' = FromInt(0)
    /\ total_acc' = 0
    /\ total' = 0
    /\ sampler' \in SamplerOrders(pc)
    /\ pos' = 0
    /\ processed' = <<>>
    /\ pc' = "t_loop"
    /\ UNCHANGED << inputVars, error, alphas, i, interpolant, lists, locals, output >>

\* lines 126-138: one batch below the cap
TestBatch ==
    /\ pc = "t_loop"
    /\ pos < Len(sampler)
    /\ ~CapReached(total, args.test_samples)
    /\ \E b \in NextBatches :
          LET outputs == Outputs(heap[interpolant], b.inputs)
              loss    == criterion(outputs, b.targets)
              acc     == accuracy(outputs, b.targets)
          IN  /\ total_loss' = AddLoss(total_loss, loss, b.targets)
              /\ total_acc' = total_acc + acc
              /\ total' = total + BatchCount(b.targets)
              /\ processed' = Append(processed, b)
    /\ pos' = pos + Len(NextIdx)
    /\ UNCHANGED << inputVars, heap, pc, error, alphas, i, interpolant, lists, locals,
                    loader, sampler, output >>

\* lines 126-128: a batch is yielded but the cap is already met
TestBreak ==
    /\ pc = "t_loop"
    /\ pos < Len(sampler)
    /\ CapReached(total, args.test_samples)
    /\ pos' = pos + Len(NextIdx)
    /\ pc' = "t_return"
    /\ UNCHANGED << inputVars, heap, error, alphas, i, interpolant, lists, locals,
                    loader, sampler, total_loss, total_acc, total, processed, output >>

\* line 126: the loader is exhausted
TestExhausted ==
    /\ pc = "t_loop"
    /\ pos = Len(sampler)
    /\ pc' = "t_return"
    /\ UNCHANGED << inputVars, heap, error, alphas, i, interpolant, lists, locals,
                    frame, output >>

\* line 140, and the assignment of the pair at line 80 or 81; the locals of
\* test go out of scope
TestReturn ==
    /\ pc = "t_return"
    /\ total # 0
    /\ IF loader = "test"
       THEN /\ test_loss' = MeanLoss(total_loss, total)
            /\ test_acc' = Percent(total_acc, total)
            /\ pc' = "train"
            /\ UNCHANGED << train_loss, train_acc >>
       ELSE /\ train_loss' = MeanLoss(total_loss, total)
            /\ train_acc' = Percent(total_acc, total)
            /\ pc' = "append"
            /\ UNCHANGED << test_loss, test_acc >>
    /\ loader' = "none"
    /\ sampler' = <<>>
    /\ pos' = 0
    /\ total_loss' = FromInt(0)
    /\ total_acc' = 0
    /\ total' = 0
    /\ processed' = <<>>
    /\ UNCHANGED << inputVars, heap, error, alphas, i, interpolant, lists, output >>

\* line 140 with total = 0: the division raises and the script terminates
TestDivZero ==
    /\ pc = "t_return"
    /\ total = 0
    /\ pc' = "error"
    /\ error' = "ZeroDivisionError"
    /\ UNCHANGED << inputVars, heap, alphas, i, interpolant, lists, locals, frame, output >>

\* ------------------------------------------------------- specification
Next ==
    \/ VizBegin
    \/ VizInterpolate
    \/ TestBegin
    \/ TestBatch
    \/ TestBreak
    \/ TestExhausted
    \/ TestReturn
    \/ TestDivZero
    \/ VizAppend
    \/ VizReport

Spec == Init /\ [][Next]_vars

\* ------------------------------------------------- auxiliary definitions
cap == args.test_samples

\* the number of samples in the first j batches of the current iterator
Prefix(j) == Min(j * args.batch_size, Len(sampler))

\* the coefficient of sweep iteration k as alpha*A + (1-alpha)*B over integers
Blend(k, a, b) == Frac(alphas[k].n * a + (alphas[k].d - alphas[k].n) * b, alphas[k].d)

\* the parameters the interpolant of iteration k has when built from the checkpoints
IParams(k) == [c \in 1..Len(checkpoint1) |-> Blend(k, checkpoint1[c], checkpoint2[c])]

IModel(k) ==
    [params   |-> [c \in 1..Len(checkpoint1) |-> [data |-> IParams(k)[c], requires_grad |-> FALSE]],
     training |-> FALSE]

\* the pair a model scores on a sequence of batches
EvalOn(batches, m) ==
    LET losses  == [j \in 1..Len(batches) |->
                      criterion(Outputs(m, batches[j].inputs), batches[j].targets)]
        matches == [j \in 1..Len(batches) |->
                      accuracy(Outputs(m, batches[j].inputs), batches[j].targets)]
        sizes   == [j \in 1..Len(batches) |-> Len(batches[j].targets)]
    IN  [loss |-> Frac(FSum(losses).n, FSum(losses).d * Sum(sizes)),
         acc  |-> Frac(100 * Sum(matches), Sum(sizes))]

\* the batches of the test loader that lie below the cap, in dataset order
TestBatchesBelowCap ==
    LET n  == Len(testset)
        bs == args.batch_size
        m  == Cardinality({ j \in 1..NumBatches(n, bs) : Min((j - 1) * bs, n) < cap })
    IN  [j \in 1..m |->
           LET idx == [k \in 1..BatchLen(n, bs, j) |-> (j - 1) * bs + k]
           IN  [idx     |-> idx,
                inputs  |-> [k \in 1..Len(idx) |-> testset[idx[k]].x],
                targets |-> [k \in 1..Len(idx) |-> testset[idx[k]].y]]]

Flat(s) == \A a, b \in 1..Len(s) : s[a] = s[b]

\* ---------------------------------------------------------------- C1
\* C1: for every coefficient alpha of the sweep, inside or outside [0,1], and
\* every parameter index c, the interpolant's parameter c equals
\* alpha*A_c + (1-alpha)*B_c; with alpha = 0 it is B's and with alpha = 1 A's.
C1_InterpolateFormula ==
    i >= 1 =>
        LET a == alphas[i]
            A == Data(heap["model1"])
            B == Data(heap["model2"])
            R == Data(heap[interpolant])
        IN  /\ Len(R) = Len(A)
            /\ \A c \in 1..Len(R) :
                  /\ R[c].n * a.d * A[c].d * B[c].d
                       = R[c].d * (a.n * A[c].n * B[c].d + (a.d - a.n) * B[c].n * A[c].d)
                  /\ a = FromInt(0) => R[c] = B[c]
                  /\ a = FromInt(1) => R[c] = A[c]

C1_Witness ==
    /\ pc = "test"
    /\ checkpoint1 # checkpoint2
    /\ alphas[i] = FromInt(2)
    /\ Data(heap[interpolant]) # Data(heap["model1"])

\* ---------------------------------------------------------------- C2
\* C2: model1 and model2 are never mutated: in every state of the sweep they
\* hold exactly what loading left in them, and every interpolant is built from
\* those original values, not from an earlier interpolant.
C2_SourcesUnchanged ==
    /\ heap["model1"] = LoadModel(checkpoint1)
    /\ heap["model2"] = LoadModel(checkpoint2)
    /\ i >= 1 => Data(heap[interpolant]) = IParams(i)

C2_Witness ==
    /\ i >= 2
    /\ Len(test_losses) >= 1
    /\ pc = "t_loop"
    /\ processed # <<>>
    /\ checkpoint1 # checkpoint2

\* ---------------------------------------------------------------- C3
\* C3: the cap is checked before each batch: the batches processed are the
\* leading batches of the loader's order, each in full; batch j is processed
\* if and only if the count accumulated before it is below the cap; the loop
\* ends at the first batch that finds the cap met, or when the loader is
\* exhausted.
C3_CapCheckedBeforeBatch ==
    pc \in {"t_loop", "t_return"} =>
        LET done == Len(processed)
            nb   == NumBatches(Len(sampler), args.batch_size)
        IN  /\ done <= nb
            /\ total = Prefix(done)
            /\ \A j \in 1..done :
                  /\ processed[j].idx = SubSeq(sampler, Prefix(j - 1) + 1, Prefix(j))
                  /\ Len(processed[j].targets) = BatchLen(Len(sampler), args.batch_size, j)
                  /\ Prefix(j - 1) < cap
            /\ pc = "t_return" =>
                  /\ \A j \in 1..nb : (j <= done) <=> (Prefix(j - 1) < cap)
                  /\ done < nb => (total >= cap /\ pos = Prefix(done + 1))
                  /\ done = nb => pos = Len(sampler)

C3_Witness ==
    /\ pc = "t_return"
    /\ Len(processed) >= 1
    /\ Len(processed) < NumBatches(Len(sampler), args.batch_size)
    /\ total > cap

\* ---------------------------------------------------------------- C4
\* the cap lies strictly inside one of the loader's batches
CapMidBatch ==
    \E j \in 1..NumBatches(Len(sampler), args.batch_size) :
        Prefix(j - 1) < cap /\ cap < Prefix(j)

\* C4 as stated: with at least sample_cap samples in the loader and the cap
\* inside a batch, test ends with fewer than sample_cap samples evaluated.
C4_UnderEvaluates ==
    (pc = "t_return" /\ Len(sampler) >= cap /\ CapMidBatch) => total < cap

\* C4 amended: with at least sample_cap samples in the loader, test never
\* ends below the cap: the total is at least sample_cap and exceeds it by less
\* than the last batch processed, which holds the cap and is counted in full.
C4_NeverBelowCap ==
    (pc = "t_return" /\ Len(sampler) >= cap) =>
        /\ total >= cap
        /\ processed # <<>> => total - Len(processed[Len(processed)].targets) < cap
        /\ CapMidBatch => total > cap

C4_Witness ==
    /\ pc = "t_return"
    /\ Len(sampler) >= cap
    /\ CapMidBatch
    /\ total > cap

\* ---------------------------------------------------------------- C5
\* C5: with sample_cap <= 0 test processes no batch, accumulates nothing and
\* never returns a pair: on a non-empty loader it ends in ZeroDivisionError.
C5_NonPositiveCap ==
    cap <= 0 =>
        /\ processed = <<>>
        /\ total = 0 /\ total_acc = 0 /\ total_loss = FromInt(0)
        /\ test_loss = None /\ test_acc = None /\ train_loss = None /\ train_acc = None
        /\ test_losses = <<>> /\ train_losses = <<>>
        /\ pc \notin {"train", "append"}
        /\ pc = "t_return" => (pos > 0 /\ loader = "test")
        /\ pc = "error" => error = "ZeroDivisionError"
        /\ pc = "done" => args.viz_samples = 0

C5_Witness ==
    /\ cap <= 0
    /\ pc = "error"
    /\ error = "ZeroDivisionError"
    /\ Len(sampler) > 0
    /\ pos > 0
    /\ processed = <<>>

\* ---------------------------------------------------------------- C6
\* the number of sweep iterations completed
Completed == IF pc \in {"start", "for", "done"} THEN i ELSE i - 1

C6_Lengths ==
    /\ Len(test_losses) = Completed
    /\ Len(test_acces) = Completed
    /\ Len(train_losses) = Completed
    /\ Len(train_acces) = Completed
    /\ pc = "done" =>
          /\ Completed = args.viz_samples
          /\ output.raw_arrays = << [test_loss      |-> test_losses,
                                     test_accuracy  |-> test_acces,
                                     train_loss     |-> train_losses,
                                     train_accuracy |-> train_acces] >>

C6_Steps ==
    /\ (pc = "t_return" /\ pc' = "train") =>
          /\ heap[interpolant] = IModel(i)
          /\ processed = TestBatchesBelowCap
          /\ test_loss' = EvalOn(processed, IModel(i)).loss
          /\ test_acc' = EvalOn(processed, IModel(i)).acc
    /\ (pc = "t_return" /\ pc' = "append") =>
          /\ heap[interpolant] = IModel(i)
          /\ train_loss' = EvalOn(processed, IModel(i)).loss
          /\ train_acc' = EvalOn(processed, IModel(i)).acc
    /\ (pc = "append" /\ pc' = "for") =>
          /\ test_losses' = Append(test_losses, test_loss)
          /\ test_acces' = Append(test_acces, test_acc)
          /\ train_losses' = Append(train_losses, train_loss)
          /\ train_acces' = Append(train_acces, train_acc)
    /\ pc' # "for" => lists' = lists

\* C6: after each completed iteration k the four sequences have length k and
\* entry k of each is the result of evaluating the interpolant of the k-th
\* coefficient (earlier entries are kept); when the sweep has completed the
\* persisted sequences have length viz_samples, in coefficient order.
C6_SequencesAligned == [][C6_Lengths /\ C6_Lengths' /\ C6_Steps]_vars

C6_Witness ==
    /\ pc = "done"
    /\ args.viz_samples >= 3
    /\ Len(output.raw_arrays[1].train_loss) = args.viz_samples
    /\ checkpoint1 # checkpoint2
    /\ ~Flat(test_losses)

\* ---------------------------------------------------------------- C7
\* C7 as stated: with identical checkpoints every interpolant has the shared
\* parameters and all four recorded curves are constant.
C7_AllCurvesFlat ==
    checkpoint1 = checkpoint2 =>
        /\ i >= 1 => Data(heap[interpolant]) = Data(LoadModel(checkpoint1))
        /\ Flat(test_losses) /\ Flat(test_acces)
        /\ Flat(train_losses) /\ Flat(train_acces)

\* C7 amended: with identical checkpoints every interpolant has the shared
\* parameters and the test loss and test accuracy curves are constant; the
\* train curves need not be, the train loader reshuffles and augments at
\* random on every pass.
C7_TestCurvesFlat ==
    checkpoint1 = checkpoint2 =>
        /\ i >= 1 => Data(heap[interpolant]) = Data(LoadModel(checkpoint1))
        /\ Flat(test_losses) /\ Flat(test_acces)

C7_Witness ==
    /\ checkpoint1 = checkpoint2
    /\ pc = "done"
    /\ Len(test_losses) >= 2
    /\ ~Flat(train_losses)

\* ---------------------------------------------------------------- C8
\* C8: the coefficient sequence has viz_samples values; for N >= 2 it starts
\* at -1, ends at 2 and consecutive values differ by 3/(N-1); for N = 1 it is
\* the single value -1 and the output sequences have length 1.
C8_Coefficients ==
    pc # "start" =>
        LET N == args.viz_samples
        IN  /\ Len(alphas) = N
            /\ N >= 2 =>
                  /\ alphas[1] = FromInt(-1)
                  /\ alphas[N] = FromInt(2)
                  /\ \A k \in 1..(N - 1) : FSub(alphas[k + 1], alphas[k]) = Frac(3, N - 1)
            /\ N = 1 =>
                  /\ alphas = << FromInt(-1) >>
                  /\ pc = "done" => Len(output.raw_arrays[1].test_loss) = 1

C8_Witness ==
    /\ pc = "for"
    /\ args.viz_samples >= 3
    /\ i = args.viz_samples
    /\ alphas[2] # FromInt(2)

\* ---------------------------------------------------------------- C9
InRange(acc) == FLeq(FromInt(0), acc) /\ FLeq(acc, FromInt(100))

\* C9: the accumulated matches never exceed the accumulated sample count and
\* the accumulated loss is never negative, so every pair test returns has its
\* accuracy in [0, 100] and its loss >= 0.
C9_Ranges ==
    /\ 0 <= total_acc /\ total_acc <= total
    /\ FLeq(FromInt(0), total_loss)
    /\ test_acc # None => (InRange(test_acc) /\ FLeq(FromInt(0), test_loss))
    /\ train_acc # None => (InRange(train_acc) /\ FLeq(FromInt(0), train_loss))
    /\ \A k \in 1..Len(test_acces) :
          /\ InRange(test_acces[k]) /\ InRange(train_acces[k])
          /\ FLeq(FromInt(0), test_losses[k]) /\ FLeq(FromInt(0), train_losses[k])

C9_Witness ==
    /\ pc = "append"
    /\ FLt(FromInt(0), test_acc) /\ FLt(test_acc, FromInt(100))
    /\ train_acc = FromInt(100)
    /\ FLt(FromInt(0), test_loss)

\* ---------------------------------------------------------------- C10
\* the pair handed to the caller by the step that returns from test
Returned == IF pc' = "train" THEN << test_loss', test_acc' >> ELSE << train_loss', train_acc' >>

\* C10: test returns the sum of the per-batch criterion values of the batches
\* it processed divided by the number of samples processed, and 100 times the
\* sum of the per-batch top-1 matches divided by the same number.
C10_ReturnedPair ==
    [][(pc = "t_return" /\ pc' \in {"train", "append"}) =>
          LET losses  == [j \in 1..Len(processed) |->
                            criterion(Outputs(heap[interpolant], processed[j].inputs),
                                      processed[j].targets)]
              matches == [j \in 1..Len(processed) |->
                            accuracy(Outputs(heap[interpolant], processed[j].inputs),
                                     processed[j].targets)]
              n       == Sum([j \in 1..Len(processed) |-> Len(processed[j].targets)])
          IN  /\ n = total
              /\ Returned[1].n * FSum(losses).d * n = FSum(losses).n * Returned[1].d
              /\ Returned[2].n * n = 100 * Sum(matches) * Returned[2].d]_vars

C10_Witness ==
    /\ pc = "t_return"
    /\ Len(processed) >= 2
    /\ Len(processed[1].targets) >= 2
    /\ FLt(FromInt(0), total_loss)
    /\ total_acc > 0
====
